---- MODULE Spec2Model ----
(***************************************************************************)
(* A model of asyncirc/irc.py: the IRCProtocol connection engine, its      *)
(* outbound queue and drain timer, the IRCProtocolWrapper indirection, the *)
(* connect / reconnect functions and User.from_hostmask.                   *)
(*                                                                         *)
(* Text is a sequence of one-character strings.  Bytes are a sequence of   *)
(* byte tokens: an ASCII byte is written as its character, the two bytes   *)
(* of the one non-ASCII character of the model, "U+E9", are "xC3" "xA9".   *)
(***************************************************************************)
EXTENDS Integers, Sequences, FiniteSets, TLC

VARIABLES
    conn,      \* conn[c]: the fields of the c-th IRCProtocol instance
    wrap,      \* wrap[w]: the protocol attribute of the w-th IRCProtocolWrapper
    pending,   \* the connect / reconnect call blocked in run_until_complete
    hist,      \* hist[c]: what protocol c has emitted, enqueued and written
    last,      \* the protocol operation called last, and how it ended
    ncalls,    \* the number of calls of the protocol operations so far
    arg,       \* the argument of the last from_hostmask call
    ret        \* its result

vars == <<conn, wrap, pending, hist, last, ncalls, arg, ret>>

(***************************************************************************)
(* Bounds of the model.                                                    *)
(***************************************************************************)
MaxConns == 2      \* Spec: protocol instances created
MaxCalls == 1      \* Spec: calls of the protocol operations
MaxEnq == 3        \* SpecQueue: lines enqueued
MaxMsgLen == 950   \* SpecSay: length of the message
MaxArgs == 3       \* SpecCommand: number of arguments
MaxMaskLen == 4    \* SpecHostmask: length of the hostmask
MaxStream == 4     \* SpecFrame: bytes received
MaxChunk == 3      \* SpecFrame: bytes of one data_received call

(***************************************************************************)
(* Program constants.                                                      *)
(***************************************************************************)
QueueTimerTenths == 15   \* queue_timer = 1.5, in tenths of a time unit
ChunkSize == 400         \* message[:400]

None == 0                \* Python's None where a wrapper is expected

(***************************************************************************)
(* Python's str and bytes operations.                                      *)
(***************************************************************************)
Whitespace == {" ", "\t", "\n", "\r"}

RECURSIVE LStrip(_)
LStrip(s) ==
    IF s # <<>> /\ Head(s) \in Whitespace THEN LStrip(Tail(s)) ELSE s

RECURSIVE RStrip(_)
RStrip(s) ==
    IF s # <<>> /\ s[Len(s)] \in Whitespace
    THEN RStrip(SubSeq(s, 1, Len(s) - 1))
    ELSE s

\* str.strip(): leading and trailing whitespace removed
Strip(s) == RStrip(LStrip(s))

\* x in s
Contains(s, x) == \E i \in 1..Len(s) : s[i] = x

\* s.index(x) + 1, for x in s
Index(s, x) == CHOOSE i \in 1..Len(s) : s[i] = x /\ \A j \in 1..(i - 1) : s[j] # x

\* s[:n] and s[n:]
Take(s, n) == SubSeq(s, 1, IF n < Len(s) THEN n ELSE Len(s))
Drop(s, n) == SubSeq(s, n + 1, Len(s))

\* sep.join(parts)
RECURSIVE JoinStr(_, _)
JoinStr(sep, parts) ==
    IF parts = <<>> THEN <<>>
    ELSE IF Len(parts) = 1 THEN parts[1]
    ELSE parts[1] \o sep \o JoinStr(sep, Tail(parts))

UpperOf ==
    [a |-> "A", b |-> "B", c |-> "C", d |-> "D", e |-> "E", f |-> "F", g |-> "G",
     h |-> "H", i |-> "I", j |-> "J", k |-> "K", l |-> "L", m |-> "M", n |-> "N",
     o |-> "O", p |-> "P", q |-> "Q", r |-> "R", s |-> "S", t |-> "T", u |-> "U",
     v |-> "V", w |-> "W", x |-> "X", y |-> "Y", z |-> "Z"]

\* str.upper()
Upper(s) == [i \in 1..Len(s) |-> IF s[i] \in DOMAIN UpperOf THEN UpperOf[s[i]] ELSE s[i]]

\* str.encode(): UTF-8
RECURSIVE Encode(_)
Encode(s) ==
    IF s = <<>> THEN <<>>
    ELSE (IF Head(s) = "U+E9" THEN <<"xC3", "xA9">> ELSE <<Head(s)>>) \o Encode(Tail(s))

DecodeError == <<"UnicodeDecodeError">>

\* bytes.decode(): UTF-8; DecodeError for a sequence that is not well formed
RECURSIVE Decode(_)
Decode(b) ==
    IF b = <<>> THEN <<>>
    ELSE IF Head(b) = "xC3"
    THEN IF Len(b) >= 2 /\ b[2] = "xA9"
         THEN LET rest == Decode(Drop(b, 2))
              IN  IF rest = DecodeError THEN DecodeError ELSE <<"U+E9">> \o rest
         ELSE DecodeError
    ELSE IF Head(b) = "xA9" THEN DecodeError
    ELSE LET rest == Decode(Tail(b))
         IN  IF rest = DecodeError THEN DecodeError ELSE <<Head(b)>> \o rest

CRLF == <<"\r", "\n">>

(***************************************************************************)
(* IRCProtocol.connection_made: the fields of a new protocol.  timers is   *)
(* the event loop's pending call_later(queue_timer, process_queue) calls   *)
(* of this protocol, lost whether its transport reported the loss.         *)
(***************************************************************************)
NewProtocol ==
    [wrapper |-> None, buf |-> <<>>, nickname |-> <<>>, queue |-> <<>>,
     queue_timer |-> QueueTimerTenths, caps |-> {}, server_info |-> <<>>,
     timers |-> <<>>, lost |-> FALSE]

NewHist ==
    [connected |-> <<>>, stream |-> <<>>, raw |-> <<>>, rawFailed |-> FALSE,
     rawFailedAt |-> {}, spanned |-> FALSE,
     enq |-> <<>>, wire |-> <<>>, sent |-> <<>>, lostTo |-> <<>>, registered |-> <<>>,
     reconnect |-> <<>>, replacedBy |-> 0]

\* pending.c is the new protocol once connection_made ran, pending.old the
\* protocol whose loss reconnect answers
NoCall == [kind |-> "none", w |-> None, c |-> 0, info |-> <<>>, old |-> 0]
Idle == [op |-> "none", via |-> None, c |-> 0, ok |-> TRUE, args |-> <<>>]

Protocols == 1..Len(conn)
Wrappers == 1..Len(wrap)

\* IRCProtocolWrapper.__getattr__: an attribute the wrapper does not have is
\* looked up on the protocol it refers to
WrapperTarget(w) == wrap[w]

\* the sender of an emission
Protocol(c) == [kind |-> "protocol", id |-> c]
Wrapper(w) == IF w = None THEN [kind |-> "None", id |-> 0] ELSE [kind |-> "wrapper", id |-> w]

Did(op, via, c, ok, args) == [op |-> op, via |-> via, c |-> c, ok |-> ok, args |-> args]

(***************************************************************************)
(* connect and reconnect.  Both block in loop.run_until_complete, during   *)
(* which the loop runs other callbacks.                                    *)
(***************************************************************************)
\* connect(server, port, use_ssl), up to run_until_complete
ConnectStart(p) ==
    /\ pending.kind = "none"
    /\ pending' = [kind |-> "connect", w |-> None, c |-> 0, info |-> <<p>>, old |-> 0]
    /\ UNCHANGED <<conn, wrap, hist, last, ncalls, arg, ret>>

\* queue.pop() for queue.pop(0): the line enqueued last
PopLast(queue) == [line |-> queue[Len(queue)], rest |-> SubSeq(queue, 1, Len(queue) - 1)]

\* self.queue.pop(0): the line popped and the queue left
Pop0(queue) == [line |-> Head(queue), rest |-> Tail(queue)]

\* IRCProtocol.process_queue on protocol p with history h; out is what
\* _writeln does: "ok", "send_raises" (socket.send raises) or "handler_raises"
\* (an irc-send handler raises after the write)
ProcessQueueOn(p, h, out) ==
    IF p.queue = <<>>
    THEN [p |-> [p EXCEPT !.timers = Append(@, p.queue_timer)], h |-> h, ok |-> TRUE]
    ELSE LET line == Pop0(p.queue).line
             bytes == Encode(line)
             popped == [p EXCEPT !.queue = Pop0(@).rest]
         IN  IF out = "send_raises"
             THEN [p |-> popped, h |-> h, ok |-> FALSE]
             ELSE LET written == [h EXCEPT !.wire = Append(@, bytes \o CRLF),
                                           !.sent = Append(@, Decode(bytes))]
                  IN  IF out = "handler_raises"
                      THEN [p |-> popped, h |-> written, ok |-> FALSE]
                      ELSE [p |-> [popped EXCEPT !.timers = Append(@, p.queue_timer)],
                            h |-> written, ok |-> TRUE]

\* the wrappers that refer to protocol c
ReferredBy(c) == {w \in Wrappers : wrap[w] = c}

\* signal("connected").send(self) of protocol p with history h: the sender and
\* what a handler finds when it is called
Connected(c, p, h, refs) ==
    [sender |-> Protocol(c), buf |-> p.buf, queue |-> p.queue, caps |-> p.caps,
     nickname |-> p.nickname, timers |-> p.timers, raws |-> Len(h.raw),
     referredBy |-> refs]

\* what a handler of connected does: nothing (None), or writeln(line) through
\* the wrapper handler
HandlerCall(s, handler, line) ==
    IF handler = None THEN s
    ELSE LET a == WrapperTarget(handler)
         IN  [s EXCEPT !.conn[a].queue = Append(@, line), !.hist[a].enq = Append(@, line)]

\* reconnect without the assignment to client_wrapper.protocol
SetProtocolNot(w, c) == wrap

\* client_wrapper.protocol = protocol
SetProtocol(w, c) == [wrap EXCEPT ![w] = c]

\* the wrapper repointed as soon as the new protocol exists, before connected
\* is sent, instead of after run_until_complete
ConnectionMadeRepointFirst(handler) ==
    /\ pending.kind # "none"
    /\ pending.c = 0
    /\ handler \in Wrappers \cup {None}
    /\ LET c == Len(conn) + 1
           early == IF pending.kind = "reconnect" THEN SetProtocol(pending.w, c) ELSE wrap
           made == [conn |-> Append(conn, NewProtocol), hist |-> Append(hist, NewHist)]
           sent == [made EXCEPT !.hist[c].connected =
                                  Append(@, Connected(c, made.conn[c], made.hist[c],
                                                      {w \in Wrappers : early[w] = c}))]
           handled == IF handler = None THEN sent
                      ELSE [sent EXCEPT !.conn[early[handler]].queue = Append(@, <<"x">>),
                                        !.hist[early[handler]].enq = Append(@, <<"x">>)]
           r == ProcessQueueOn(handled.conn[c], handled.hist[c], "ok")
       IN  /\ conn' = [handled.conn EXCEPT ![c] = r.p]
           /\ hist' = [handled.hist EXCEPT ![c] = r.h]
           /\ pending' = [pending EXCEPT !.c = c]
           /\ wrap' = early
           /\ IF handler = None
              THEN UNCHANGED <<last, ncalls>>
              ELSE /\ last' = Did("writeln", handler, early[handler], TRUE, <<<<"x">>>>)
                   /\ ncalls' = ncalls + 1
    /\ UNCHANGED <<arg, ret>>

\* connection_made with process_queue() before signal("connected").send(self)
ConnectionMadeDrainFirst(handler) ==
    /\ pending.kind # "none"
    /\ pending.c = 0
    /\ handler \in Wrappers \cup {None}
    /\ LET c == Len(conn) + 1
           made == [conn |-> Append(conn, NewProtocol), hist |-> Append(hist, NewHist)]
           r == ProcessQueueOn(made.conn[c], made.hist[c], "ok")
           drained == [made EXCEPT !.conn[c] = r.p, !.hist[c] = r.h]
           sent == [drained EXCEPT !.hist[c].connected =
                                     Append(@, Connected(c, drained.conn[c], drained.hist[c],
                                                         ReferredBy(c)))]
           handled == HandlerCall(sent, handler, <<"x">>)
       IN  /\ conn' = handled.conn
           /\ hist' = handled.hist
           /\ pending' = [pending EXCEPT !.c = c]
    /\ IF handler = None
       THEN UNCHANGED <<last, ncalls>>
       ELSE /\ last' = Did("writeln", handler, WrapperTarget(handler), TRUE, <<<<"x">>>>)
            /\ ncalls' = ncalls + 1
    /\ UNCHANGED <<wrap, arg, ret>>

\* the transport is ready: the loop calls IRCProtocol.connection_made on a new
\* protocol; handler is what the handlers of connected do
ConnectionMade(handler) ==
    /\ pending.kind # "none"
    /\ pending.c = 0
    /\ handler \in Wrappers \cup {None}
    /\ LET c == Len(conn) + 1
           made == [conn |-> Append(conn, NewProtocol), hist |-> Append(hist, NewHist)]
           sent == [made EXCEPT !.hist[c].connected =
                                  Append(@, Connected(c, made.conn[c], made.hist[c],
                                                      ReferredBy(c)))]
           handled == HandlerCall(sent, handler, <<"x">>)
           r == ProcessQueueOn(handled.conn[c], handled.hist[c], "ok")
       IN  /\ conn' = [handled.conn EXCEPT ![c] = r.p]
           /\ hist' = [handled.hist EXCEPT ![c] = r.h]
           /\ pending' = [pending EXCEPT !.c = c]
    /\ IF handler = None
       THEN UNCHANGED <<last, ncalls>>
       ELSE /\ last' = Did("writeln", handler, WrapperTarget(handler), TRUE, <<<<"x">>>>)
            /\ ncalls' = ncalls + 1
    /\ UNCHANGED <<wrap, arg, ret>>

\* connection_made when the handlers of connected call nothing
TransportReady == ConnectionMade(None)

\* how the calls of reconnect for the loss of protocol old ended so far, with
\* one more that ended as outcome
Reconnected(old, outcome) == [hist EXCEPT ![old].reconnect = Append(@, outcome)]

\* reconnect that tries create_connection again when it fails
ConnectFailRetry ==
    /\ pending.kind # "none"
    /\ pending.c = 0
    /\ pending' = IF pending.kind = "reconnect" THEN pending ELSE NoCall
    /\ hist' = IF pending.kind = "reconnect" THEN Reconnected(pending.old, "raised") ELSE hist
    /\ UNCHANGED <<conn, wrap, last, ncalls, arg, ret>>

\* create_connection fails: the failure propagates out of connect / reconnect
ConnectFail ==
    /\ pending.kind # "none"
    /\ pending.c = 0
    /\ pending' = NoCall
    /\ hist' = IF pending.kind = "reconnect" THEN Reconnected(pending.old, "raised") ELSE hist
    /\ UNCHANGED <<conn, wrap, last, ncalls, arg, ret>>

\* reconnect that hands the lines still queued on the old protocol to the new
ConnectFinishCarryQueue ==
    /\ pending.kind # "none"
    /\ pending.c # 0
    /\ IF pending.kind = "connect"
       THEN /\ wrap' = Append(wrap, pending.c)
            /\ conn' = [conn EXCEPT ![pending.c].wrapper = Len(wrap) + 1,
                                    ![pending.c].server_info = pending.info]
            /\ hist' = hist
       ELSE /\ wrap' = SetProtocol(pending.w, pending.c)
            /\ conn' = [conn EXCEPT ![pending.c].queue = conn[pending.old].queue \o @,
                                    ![pending.old].queue = <<>>]
            /\ hist' = [Reconnected(pending.old, "returned") EXCEPT
                            ![pending.old].replacedBy = pending.c]
    /\ pending' = NoCall
    /\ UNCHANGED <<last, ncalls, arg, ret>>

\* run_until_complete returns the new protocol: the rest of connect / reconnect
ConnectFinish ==
    /\ pending.kind # "none"
    /\ pending.c # 0
    /\ IF pending.kind = "connect"
       THEN /\ wrap' = Append(wrap, pending.c)
            /\ conn' = [conn EXCEPT ![pending.c].wrapper = Len(wrap) + 1,
                                    ![pending.c].server_info = pending.info]
            /\ hist' = hist
       ELSE /\ wrap' = SetProtocol(pending.w, pending.c)
            /\ conn' = conn
            /\ hist' = [Reconnected(pending.old, "returned") EXCEPT
                            ![pending.old].replacedBy = pending.c]
    /\ pending' = NoCall
    /\ UNCHANGED <<last, ncalls, arg, ret>>

\* reconnect(client_wrapper), up to run_until_complete; the new value of
\* pending, NoCall when it raises
ReconnectCall(sender, old) ==
    IF sender = None THEN NoCall                     \* None.server_info
    ELSE LET info == conn[WrapperTarget(sender)].server_info
         IN  IF info = <<>> THEN NoCall              \* ** of a non-mapping
             ELSE [kind |-> "reconnect", w |-> sender, c |-> 0, info |-> info,
                   old |-> old]

\* the transport of protocol c is lost: IRCProtocol.connection_lost and the
\* reconnect handler of connection-lost
ConnectionLost(c) ==
    /\ c \in Protocols
    /\ ~conn[c].lost
    /\ LET sender == conn[c].wrapper
           call == ReconnectCall(sender, c)
           \* while the loop is running, run_until_complete raises
           raises == pending.kind # "none" \/ call = NoCall
       IN  /\ conn' = [conn EXCEPT ![c].lost = TRUE]
           /\ hist' = [(IF raises THEN Reconnected(c, "raised") ELSE hist) EXCEPT
                            ![c].lostTo = Append(@, [sender |-> Wrapper(sender),
                                                     referredBy |-> ReferredBy(c)])]
           /\ pending' = IF raises THEN pending ELSE call
    /\ UNCHANGED <<wrap, last, ncalls, arg, ret>>

(***************************************************************************)
(* The outbound queue.                                                     *)
(***************************************************************************)
\* a pending call_later of protocol c fires: IRCProtocol.process_queue
ProcessQueue(c, out) ==
    /\ c \in Protocols
    /\ conn[c].timers # <<>>
    /\ conn[c].queue = <<>> => out = "ok"
    /\ LET r == ProcessQueueOn([conn[c] EXCEPT !.timers = Tail(@)], hist[c], out)
       IN  /\ conn' = [conn EXCEPT ![c] = r.p]
           /\ hist' = [hist EXCEPT ![c] = r.h]
    /\ UNCHANGED <<wrap, pending, last, ncalls, arg, ret>>

\* the protocol a call reaches: through wrapper via, or protocol c itself
Reaches(via, c) ==
    /\ c \in Protocols
    /\ via \in Wrappers \cup {None}
    /\ via # None => c = WrapperTarget(via)

\* queue.insert(0, line) for queue.append(line)
EnqueueAtHead(c, lines) ==
    /\ conn' = [conn EXCEPT ![c].queue = lines \o @]
    /\ hist' = [hist EXCEPT ![c].enq = @ \o lines]

\* IRCProtocol.writeln, once per line of lines
Enqueue(c, lines) ==
    /\ conn' = [conn EXCEPT ![c].queue = @ \o lines]
    /\ hist' = [hist EXCEPT ![c].enq = @ \o lines]

Writeln(via, c, line) ==
    /\ Reaches(via, c)
    /\ Enqueue(c, <<line>>)
    /\ last' = Did("writeln", via, c, TRUE, <<line>>)
    /\ ncalls' = ncalls + 1
    /\ UNCHANGED <<wrap, pending, arg, ret>>

\* register with NICK sent before USER
RegisterLinesNickFirst(nick, user, realname, mode, password) ==
    (IF password # <<>> THEN <<<<"P", "A", "S", "S", " ">> \o password>> ELSE <<>>)
    \o <<<<"N", "I", "C", "K", " ">> \o nick>>
    \o <<<<"U", "S", "E", "R", " ">> \o user \o <<" ">> \o mode \o <<" ">> \o user
         \o <<" ", ":">> \o realname>>

\* IRCProtocol.register; password is <<>> for None or "", handlerOk is whether
\* every handler of registration-complete returned
RegisterLines(nick, user, realname, mode, password) ==
    (IF password # <<>> THEN <<<<"P", "A", "S", "S", " ">> \o password>> ELSE <<>>)
    \o <<<<"U", "S", "E", "R", " ">> \o user \o <<" ">> \o mode \o <<" ">> \o user
         \o <<" ", ":">> \o realname>>
    \o <<<<"N", "I", "C", "K", " ">> \o nick>>

Register(via, c, nick, user, realname, mode, password, handlerOk) ==
    /\ Reaches(via, c)
    /\ LET lines == RegisterLines(nick, user, realname, mode, password)
       IN  /\ conn' = [conn EXCEPT ![c].queue = @ \o lines,
                                   ![c].nickname = IF handlerOk THEN nick ELSE @]
           /\ hist' = [hist EXCEPT ![c].enq = @ \o lines,
                                   ![c].registered = Append(@, Protocol(c))]
    /\ last' = Did("register", via, c, handlerOk,
                   [nick |-> nick, user |-> user, realname |-> realname,
                    mode |-> mode, password |-> password])
    /\ ncalls' = ncalls + 1
    /\ UNCHANGED <<wrap, pending, arg, ret>>

\* channels is [list |-> FALSE, name |-> a channel] or [list |-> TRUE, names |-> channels]
ChannelsStr(channels) ==
    JoinStr(<<",">>, IF channels.list THEN channels.names ELSE <<channels.name>>)

\* IRCProtocol.join
Join(via, c, channels) ==
    /\ Reaches(via, c)
    /\ Enqueue(c, <<<<"J", "O", "I", "N", " ">> \o ChannelsStr(channels)>>)
    /\ last' = Did("join", via, c, TRUE, channels)
    /\ ncalls' = ncalls + 1
    /\ UNCHANGED <<wrap, pending, arg, ret>>

\* IRCProtocol.part
Part(via, c, channels) ==
    /\ Reaches(via, c)
    /\ Enqueue(c, <<<<"P", "A", "R", "T", " ">> \o ChannelsStr(channels)>>)
    /\ last' = Did("part", via, c, TRUE, channels)
    /\ ncalls' = ncalls + 1
    /\ UNCHANGED <<wrap, pending, arg, ret>>

\* say with message[401:] for message[400:]
RECURSIVE SayLinesSkip(_, _)
SayLinesSkip(target_str, message) ==
    IF message = <<>> THEN <<>>
    ELSE <<<<"P", "R", "I", "V", "M", "S", "G", " ">> \o target_str \o <<" ", ":">>
           \o Take(message, ChunkSize)>>
         \o SayLinesSkip(target_str, Drop(message, ChunkSize + 1))

\* the lines IRCProtocol.say enqueues
RECURSIVE SayLines(_, _)
SayLines(target_str, message) ==
    IF message = <<>> THEN <<>>
    ELSE <<<<"P", "R", "I", "V", "M", "S", "G", " ">> \o target_str \o <<" ", ":">>
           \o Take(message, ChunkSize)>>
         \o SayLines(target_str, Drop(message, ChunkSize))

\* IRCProtocol.say
Say(via, c, target_str, message) ==
    /\ Reaches(via, c)
    /\ Enqueue(c, SayLines(target_str, message))
    /\ last' = Did("say", via, c, TRUE, [target |-> target_str, message |-> message])
    /\ ncalls' = ncalls + 1
    /\ UNCHANGED <<wrap, pending, arg, ret>>

\* names Python finds without IRCProtocol.__getattr__
DefinedAttrs ==
    {<<"j", "o", "i", "n">>, <<"p", "a", "r", "t">>, <<"s", "a", "y">>, <<"o", "n">>,
     <<"r", "e", "g", "i", "s", "t", "e", "r">>, <<"w", "r", "i", "t", "e", "l", "n">>}

\* the line _send_command enqueues for args, a non-empty tuple
CommandLine(attr, args) ==
    LET argstr == JoinStr(<<" ">>, SubSeq(args, 1, Len(args) - 1)) \o <<" ", ":">> \o args[Len(args)]
    IN  Upper(attr) \o <<" ">> \o argstr

\* the call of IRCProtocol.__getattr__(attr) with args; args[-1] of an empty
\* tuple raises IndexError
Command(via, c, attr, args) ==
    /\ Reaches(via, c)
    /\ attr \notin DefinedAttrs
    /\ IF args = <<>>
       THEN UNCHANGED <<conn, hist>>
       ELSE Enqueue(c, <<CommandLine(attr, args)>>)
    /\ last' = Did("command", via, c, args # <<>>, [attr |-> attr, args |-> args])
    /\ ncalls' = ncalls + 1
    /\ UNCHANGED <<wrap, pending, arg, ret>>

(***************************************************************************)
(* Inbound framing.                                                        *)
(***************************************************************************)
\* Frame with an if for the while: one line for each call
FrameOneLine(c, b, emitted, failAt) ==
    IF ~Contains(b, "\n") THEN [buf |-> b, raw |-> emitted, ok |-> TRUE]
    ELSE [buf |-> Drop(b, Index(b, "\n")),
          raw |-> <<[sender |-> Protocol(c), text |-> Strip(Take(b, Index(b, "\n") - 1))]>>,
          ok |-> failAt # 1]

\* data_received with the raw emission before the assignment to self.buf: a
\* line whose handler raises stays in the buffer
RECURSIVE FrameSendFirst(_, _, _, _)
FrameSendFirst(c, b, emitted, failAt) ==
    IF ~Contains(b, "\n") THEN [buf |-> b, raw |-> emitted, ok |-> TRUE]
    ELSE LET index == Index(b, "\n")
             line_received == Strip(Take(b, index - 1))
             rest == Drop(b, index)
             out == Append(emitted, [sender |-> Protocol(c), text |-> line_received])
         IN  IF Len(out) = failAt
             THEN [buf |-> b, raw |-> out, ok |-> FALSE]
             ELSE FrameSendFirst(c, rest, out, failAt)

\* the while loop of data_received on buffer b; failAt is the number of the
\* raw emission of this call whose handler raises, 0 for none
RECURSIVE Frame(_, _, _, _)
Frame(c, b, emitted, failAt) ==
    IF ~Contains(b, "\n") THEN [buf |-> b, raw |-> emitted, ok |-> TRUE]
    ELSE LET index == Index(b, "\n")
             line_received == Strip(Take(b, index - 1))
             rest == Drop(b, index)
             out == Append(emitted, [sender |-> Protocol(c), text |-> line_received])
         IN  IF Len(out) = failAt
             THEN [buf |-> rest, raw |-> out, ok |-> FALSE]
             ELSE Frame(c, rest, out, failAt)

\* the number of "\n" in s
RECURSIVE Terminators(_)
Terminators(s) ==
    IF s = <<>> THEN 0 ELSE (IF Head(s) = "\n" THEN 1 ELSE 0) + Terminators(Tail(s))

\* IRCProtocol.data_received(data)
DataReceived(c, data, failAt) ==
    /\ c \in Protocols
    /\ ~conn[c].lost
    /\ LET text == Decode(data)
       IN  IF text = DecodeError
           THEN /\ failAt = 0
                /\ UNCHANGED <<conn, hist>>
           ELSE LET r == Frame(c, conn[c].buf \o text, <<>>, failAt)
                IN  /\ failAt <= Terminators(conn[c].buf \o text)
                    /\ conn' = [conn EXCEPT ![c].buf = r.buf]
                    /\ hist' = [hist EXCEPT ![c].stream = @ \o text,
                                            ![c].raw = @ \o r.raw,
                                            ![c].rawFailed = @ \/ ~r.ok,
                                            ![c].rawFailedAt =
                                                IF r.ok THEN @
                                                ELSE @ \cup {Len(hist[c].raw) + Len(r.raw)},
                                            ![c].spanned =
                                                @ \/ (conn[c].buf # <<>> /\ r.raw # <<>>)]
    /\ UNCHANGED <<wrap, pending, last, ncalls, arg, ret>>

(***************************************************************************)
(* User.from_hostmask.  An optional text is <<>> for None and <<t>> for t. *)
(***************************************************************************)
Fmt(x) == IF x = <<>> THEN <<"N", "o", "n", "e">> ELSE x[1]

\* User.__init__
User(nick, user, host) ==
    [nick |-> nick, user |-> user, host |-> host,
     hostmask |-> Fmt(nick) \o <<"!">> \o Fmt(user) \o <<"@">> \o Fmt(<<host>>),
     raised |-> "no"]

\* s.split(x, maxsplit=1)
Split1(s, x) ==
    IF Contains(s, x) THEN <<Take(s, Index(s, x) - 1), Drop(s, Index(s, x))>> ELSE <<s>>

\* User.from_hostmask(hostmask): the User, or the exception of an unpacking
\* of the wrong length
from_hostmask(hostmask) ==
    IF Contains(hostmask, "!") /\ Contains(hostmask, "@")
    THEN LET nu == Split1(hostmask, "!")
             uh == Split1(nu[2], "@")
         IN  IF Len(uh) = 2
             THEN User(<<nu[1]>>, <<uh[1]>>, uh[2])
             ELSE [nick |-> <<>>, user |-> <<>>, host |-> <<>>, hostmask |-> <<>>,
                   raised |-> "ValueError"]
    ELSE User(<<>>, <<>>, hostmask)

FromHostmask(s) ==
    /\ arg' = <<s>>
    /\ ret' = <<from_hostmask(s)>>
    /\ last' = Did("from_hostmask", None, 0, from_hostmask(s).raised = "no", <<>>)
    /\ UNCHANGED <<conn, wrap, pending, hist, ncalls>>

(***************************************************************************)
(* Specification Spec: the life of the connections of one process, with    *)
(* one input for each protocol operation.                                  *)
(***************************************************************************)
Params == {[host |-> "h1", port |-> 6697, ssl |-> TRUE]}
Outcomes == {"ok", "send_raises", "handler_raises"}
NoPassword == <<>>
Nick == <<"n">>
Chan == <<"#", "a">>
Mode == <<"m", "o", "d", "e">>
DefaultMode == <<"+", "i">>
TwoChannels == [list |-> TRUE, names |-> <<Chan, <<"#", "b">>>>]

Init ==
    /\ conn = <<>>
    /\ wrap = <<>>
    /\ pending = NoCall
    /\ hist = <<>>
    /\ last = Idle
    /\ ncalls = 0
    /\ arg = <<>>
    /\ ret = <<>>

Connecting ==
    \/ \E p \in Params : Len(conn) < MaxConns /\ ConnectStart(p)
    \/ Len(conn) < MaxConns /\ TransportReady
    \/ ConnectFail
    \/ ConnectFinish
    \/ \E c \in Protocols : ConnectionLost(c)

Calls(via, c) ==
    \/ Writeln(via, c, <<"x">>)
    \/ Register(via, c, Nick, <<"u">>, <<"r">>, DefaultMode, NoPassword, TRUE)
    \/ Join(via, c, TwoChannels)
    \/ Part(via, c, TwoChannels)
    \/ Say(via, c, Chan, <<"h", "i">>)
    \/ Command(via, c, Mode, <<Chan, <<"+", "o">>, Nick>>)

Next ==
    \/ Connecting
    \/ \E c \in Protocols, out \in Outcomes : ProcessQueue(c, out)
    \/ \E via \in Wrappers : ncalls < MaxCalls /\ Calls(via, WrapperTarget(via))

Spec == Init /\ [][Next]_vars

(***************************************************************************)
(* The other specifications start where connect(p) has returned the first  *)
(* wrapper, and give one operation more inputs.                           *)
(***************************************************************************)
InitOpen ==
    /\ \E p \in Params :
          conn = <<[NewProtocol EXCEPT !.timers = <<QueueTimerTenths>>, !.wrapper = 1,
                                       !.server_info = <<p>>]>>
    /\ wrap = <<1>>
    /\ pending = NoCall
    /\ hist = <<[NewHist EXCEPT !.connected = <<Connected(1, NewProtocol, NewHist, {})>>]>>
    /\ last = Idle
    /\ ncalls = 0
    /\ arg = <<>>
    /\ ret = <<>>

\* the sequences over S of length at most n
SeqsUpTo(S, n) == UNION {[1..k -> S] : k \in 0..n}

(***************************************************************************)
(* Specification SpecQueue: calls and drain firings on one protocol.       *)
(***************************************************************************)
Room(c, n) == Len(hist[c].enq) + n <= MaxEnq /\ ncalls < MaxEnq

QueueCalls(via, c) ==
    \/ \E line \in {<<"x">>, <<"y">>} : Room(c, 1) /\ Writeln(via, c, line)
    \/ \E password \in {NoPassword, <<"p", "w">>}, ok \in BOOLEAN :
          /\ Room(c, Len(RegisterLines(Nick, <<"u">>, <<"r">>, DefaultMode, password)))
          /\ Register(via, c, Nick, <<"u">>, <<"r">>, DefaultMode, password, ok)
    \/ \E channels \in {TwoChannels, [list |-> FALSE, name |-> Chan]} :
          Room(c, 1) /\ Join(via, c, channels)
    \/ Room(c, 1) /\ Part(via, c, TwoChannels)
    \/ \E message \in {<<>>, <<"h", "i">>} : Room(c, 1) /\ Say(via, c, Chan, message)
    \/ \E args \in {<<>>, <<Chan, <<"+", "o">>, Nick>>} : Room(c, 1) /\ Command(via, c, Mode, args)

NextQueue ==
    \/ \E out \in Outcomes : ProcessQueue(1, out)
    \/ \E via \in {None, 1} : QueueCalls(via, 1)

SpecQueue == InitOpen /\ [][NextQueue]_vars

(***************************************************************************)
(* Specification SpecSay: one call of say.                                 *)
(***************************************************************************)
Letters == <<"a", "b", "c", "d", "e", "f", "g">>

\* a message of n characters with period 7
Message(n) == [i \in 1..n |-> Letters[(i % Len(Letters)) + 1]]

NextSay ==
    \E n \in 0..MaxMsgLen, target \in {Chan, Nick} :
        ncalls = 0 /\ Say(1, 1, target, Message(n))

SpecSay == InitOpen /\ [][NextSay]_vars

(***************************************************************************)
(* Specification SpecCommand: one call of a command without a method.      *)
(***************************************************************************)
Words == {Chan, <<"+", "o">>, Nick, <<"h", "i", " ", "u">>}
Names == {Mode, <<"Q", "u", "i", "t">>, <<"j", "o", "i", "n">>}

NextCommand ==
    \E attr \in Names, args \in SeqsUpTo(Words, MaxArgs) :
        ncalls = 0 /\ Command(1, 1, attr, args)

SpecCommand == InitOpen /\ [][NextCommand]_vars

(***************************************************************************)
(* Specification SpecHostmask: one call of User.from_hostmask.             *)
(***************************************************************************)
NextHostmask ==
    \E s \in SeqsUpTo({"n", "!", "@", "."}, MaxMaskLen) :
        arg = <<>> /\ FromHostmask(s)

SpecHostmask == InitOpen /\ [][NextHostmask]_vars

(***************************************************************************)
(* Specification SpecFrame: the bytes one protocol receives.               *)
(***************************************************************************)
Bytes == {"a", " ", "\r", "\n", "xC3", "xA9"}

Min(a, b) == IF a < b THEN a ELSE b

NextFrame ==
    \E data \in SeqsUpTo(Bytes, Min(MaxChunk, MaxStream - Len(hist[1].stream))) :
        \E failAt \in 0..Len(data) : DataReceived(1, data, failAt)

SpecFrame == InitOpen /\ [][NextFrame]_vars

(***************************************************************************)
(* Specification SpecOpen: the life of the connections with writeln called *)
(* through a wrapper, also by a handler of connected, and one receipt for  *)
(* each protocol.                                                          *)
(***************************************************************************)
NextOpen ==
    \/ \E p \in Params : Len(conn) < MaxConns /\ ConnectStart(p)
    \/ \E handler \in Wrappers \cup {None} :
          /\ Len(conn) < MaxConns
          /\ handler # None => ncalls < MaxCalls
          /\ ConnectionMade(handler)
    \/ ConnectFail
    \/ ConnectFinish
    \/ \E c \in Protocols : ConnectionLost(c)
    \/ \E c \in Protocols, out \in Outcomes : ProcessQueue(c, out)
    \/ \E c \in Protocols : hist[c].stream = <<>> /\ DataReceived(c, <<"a", "\n">>, 0)
    \/ \E via \in Wrappers : ncalls < MaxCalls /\ Writeln(via, WrapperTarget(via), <<"y">>)

SpecOpen == Init /\ [][NextOpen]_vars

(***************************************************************************)
(* The lines of a text, taken as a whole.                                  *)
(***************************************************************************)
\* the position of the j-th "\n" of s, 0 for j = 0
TerminatorAt(s, j) ==
    IF j = 0 THEN 0
    ELSE CHOOSE i \in 1..Len(s) :
             s[i] = "\n" /\ Cardinality({m \in 1..i : s[m] = "\n"}) = j

\* the j-th terminator-delimited line of s, and what follows its last terminator
LineOf(s, j) == SubSeq(s, TerminatorAt(s, j - 1) + 1, TerminatorAt(s, j) - 1)
RemainderOf(s) == SubSeq(s, TerminatorAt(s, Terminators(s)) + 1, Len(s))

IsPrefix(s, t) == Len(s) <= Len(t) /\ SubSeq(t, 1, Len(s)) = s

\* the step is a call of a protocol operation
IsCall == ncalls' = ncalls + 1

\* the lines the step appended to the queue of protocol c
Added(c) == SubSeq(conn'[c].queue, Len(conn[c].queue) + 1, Len(conn'[c].queue))

\* the step is a drain firing of protocol c that took a line
TookLine(c) == c \in Protocols /\ Len(conn'[c].queue) < Len(conn[c].queue)

(***************************************************************************)
(* C2.  FIFO preservation: at every moment the lines written to the        *)
(* transport of a protocol are, in order, the first lines enqueued on it,  *)
(* each written once, encoded and terminated by CR LF.                     *)
(***************************************************************************)
C2_FifoPreserved ==
    \A c \in Protocols :
        /\ Len(hist[c].wire) <= Len(hist[c].enq)
        /\ \A i \in 1..Len(hist[c].wire) : hist[c].wire[i] = Encode(hist[c].enq[i]) \o CRLF

\* two different lines were written and a third waits in the queue
C2_Witness ==
    \E c \in Protocols :
        /\ Len(hist[c].wire) = 2
        /\ hist[c].enq[1] # hist[c].enq[2]
        /\ conn[c].queue # <<>>

(***************************************************************************)
(* C5.  As claimed: a call of writeln, register, join, part, say or a      *)
(* command without a method changes nothing but the queue of the protocol  *)
(* it reaches, which it extends at the tail; a write or an irc-send        *)
(* happens only in a drain firing.                                         *)
(***************************************************************************)
OnlyDrainWrites ==
    \A c \in Protocols :
        (hist'[c].wire # hist[c].wire \/ hist'[c].sent # hist[c].sent) =>
            /\ ~IsCall
            /\ conn[c].timers # <<>>
            /\ conn[c].queue # <<>>
            /\ conn'[c].queue = Tail(conn[c].queue)
            /\ hist'[c].wire = Append(hist[c].wire, Encode(Head(conn[c].queue)) \o CRLF)

C5_CallsChangeOnlyTheQueue ==
    [][/\ IsCall =>
            LET c == last'.c
            IN  /\ conn' = [conn EXCEPT ![c].queue = conn'[c].queue]
                /\ IsPrefix(conn[c].queue, conn'[c].queue)
                /\ hist' = [hist EXCEPT ![c].enq = hist[c].enq \o Added(c),
                                        ![c].registered = hist'[c].registered]
                /\ wrap' = wrap
                /\ pending' = pending
       /\ OnlyDrainWrites]_vars

(***************************************************************************)
(* C5, amended.  The same, except that register also sets nickname (and    *)
(* emits registration-complete, once, with the protocol as sender).        *)
(***************************************************************************)
C5_CallsOnlyEnqueue ==
    [][/\ IsCall =>
            LET c == last'.c
                registers == last'.op = "register"
            IN  /\ conn' = [conn EXCEPT ![c].queue = conn'[c].queue,
                                        ![c].nickname = IF registers THEN conn'[c].nickname
                                                        ELSE @]
                /\ IsPrefix(conn[c].queue, conn'[c].queue)
                /\ hist' = [hist EXCEPT ![c].enq = hist[c].enq \o Added(c),
                                        ![c].registered = IF registers THEN Append(@, Protocol(c))
                                                          ELSE @]
                /\ wrap' = wrap
                /\ pending' = pending
       /\ OnlyDrainWrites]_vars

\* join was called after register and a drain firing, while a line waited
C5_Witness ==
    /\ last.op = "join"
    /\ hist[last.c].registered # <<>>
    /\ hist[last.c].wire # <<>>
    /\ Len(conn[last.c].queue) = 2

(***************************************************************************)
(* C6.  As claimed: a drain firing takes at most one line, the front one,  *)
(* and writes it, and after every step each protocol has exactly one       *)
(* firing pending, with its period.                                        *)
(***************************************************************************)
C6_OneFiringAlwaysPending ==
    [][\A c \in DOMAIN conn' :
          /\ conn'[c].timers = <<conn'[c].queue_timer>>
          /\ TookLine(c) =>
                /\ conn'[c].queue = Tail(conn[c].queue)
                /\ hist'[c].wire = Append(hist[c].wire, Encode(Head(conn[c].queue)) \o CRLF)]_vars

(***************************************************************************)
(* C9.  register appends, in one step and in this order, PASS (when a      *)
(* password is given), USER and NICK to the tail of the queue, with no     *)
(* write in between; it emits registration-complete once with the protocol *)
(* as sender; when it returns, nickname is the nick.                       *)
(***************************************************************************)
C9_RegisterIsAtomic ==
    [][(IsCall /\ last'.op = "register") =>
          LET c == last'.c
              a == last'.args
              pass == <<"P", "A", "S", "S", " ">> \o a.password
              user == <<"U", "S", "E", "R", " ">> \o a.user \o <<" ">> \o a.mode \o <<" ">>
                      \o a.user \o <<" ", ":">> \o a.realname
              nick == <<"N", "I", "C", "K", " ">> \o a.nick
          IN  /\ conn'[c].queue =
                     conn[c].queue \o (IF a.password # <<>> THEN <<pass>> ELSE <<>>)
                                   \o <<user, nick>>
              /\ hist'[c].wire = hist[c].wire
              /\ hist'[c].registered = Append(hist[c].registered, Protocol(c))
              /\ last'.ok => conn'[c].nickname = a.nick]_vars

\* register with a password returned and its three lines wait
C9_Witness ==
    /\ last.op = "register"
    /\ last.ok
    /\ last.args.password # <<>>
    /\ Len(conn[last.c].queue) = 3
    /\ conn[last.c].nickname = Nick

(***************************************************************************)
(* C3.  Reconnection repoint: once the loss of protocol a was answered by  *)
(* a successful reconnect to protocol b, connection-lost was emitted once  *)
(* for a, its sender the wrapper w that referred to a; w refers to b (as   *)
(* long as b is not replaced in turn), and every operation then called     *)
(* through w enqueues on b and leaves the queue of a alone.                *)
(***************************************************************************)
C3_ReconnectRepoints ==
    [][\A a \in Protocols :
          hist[a].replacedBy # 0 =>
              LET b == hist[a].replacedBy
                  e == hist[a].lostTo
              IN  /\ Len(e) = 1
                  /\ e[1].sender.kind = "wrapper"
                  /\ e[1].sender.id \in e[1].referredBy
                  /\ hist[b].replacedBy = 0 =>
                        LET w == e[1].sender.id
                        IN  /\ wrap[w] = b
                            /\ (IsCall /\ last'.via = w) =>
                                  /\ last'.c = b
                                  /\ Added(b) # <<>>
                                  /\ hist'[b].enq = hist[b].enq \o Added(b)
                                  /\ conn'[a].queue = conn[a].queue
                                  /\ hist'[a].enq = hist[a].enq]_vars

\* an operation called through the wrapper after a reconnect reached the new protocol
C3_Witness ==
    \E a \in Protocols :
        /\ hist[a].replacedBy # 0
        /\ last.via # None
        /\ wrap[last.via] = hist[a].replacedBy
        /\ last.c = hist[a].replacedBy
        /\ conn[last.c].queue # <<>>
        /\ conn[a].lost

(***************************************************************************)
(* C4.  As claimed: whenever a protocol that a wrapper refers to loses     *)
(* its transport, the sender of connection-lost is that wrapper, also for  *)
(* a protocol that reconnect created.                                      *)
(***************************************************************************)
C4_SenderIsTheWrapper ==
    \A c \in Protocols :
        \A i \in 1..Len(hist[c].lostTo) :
            LET e == hist[c].lostTo[i]
            IN  e.referredBy # {} =>
                    /\ e.sender.kind = "wrapper"
                    /\ e.sender.id \in e.referredBy

(***************************************************************************)
(* C7.  say chunking: say enqueues ceil(n / 400) lines for a message of n  *)
(* characters, each "PRIVMSG <target> :<chunk>"; a chunk has at most 400   *)
(* characters, every chunk but the last exactly 400, and the chunks in     *)
(* enqueue order make up the message.                                      *)
(***************************************************************************)
RECURSIVE Concat(_)
Concat(seqs) == IF seqs = <<>> THEN <<>> ELSE Head(seqs) \o Concat(Tail(seqs))

C7_SayChunks ==
    [][(IsCall /\ last'.op = "say") =>
          LET c == last'.c
              message == last'.args.message
              prefix == <<"P", "R", "I", "V", "M", "S", "G", " ">> \o last'.args.target
                        \o <<" ", ":">>
              lines == Added(c)
              k == Len(lines)
              chunk == [i \in 1..k |-> Drop(lines[i], Len(prefix))]
          IN  /\ k = (Len(message) + 399) \div 400
              /\ hist'[c].enq = hist[c].enq \o lines
              /\ \A i \in 1..k :
                    /\ Take(lines[i], Len(prefix)) = prefix
                    /\ Len(chunk[i]) <= 400
                    /\ i < k => Len(chunk[i]) = 400
              /\ Concat(chunk) = message]_vars

\* 950 characters were said in chunks of 400, 400 and 150
C7_Witness ==
    /\ last.op = "say"
    /\ Len(last.args.message) = 950
    /\ Len(conn[last.c].queue) = 3
    /\ Len(conn[last.c].queue[1]) = Len(conn[last.c].queue[2])
    /\ Len(conn[last.c].queue[1]) - Len(conn[last.c].queue[3]) = 250

(***************************************************************************)
(* C8.  As claimed: a command without a method, called with one argument   *)
(* or more, enqueues one line: the upper-cased name, the arguments in      *)
(* order and the last argument behind ":", with one space between          *)
(* consecutive tokens.                                                     *)
(***************************************************************************)
C8_CommandLine ==
    [][(IsCall /\ last'.op = "command" /\ last'.args.args # <<>>) =>
          LET args == last'.args.args
              tokens == <<Upper(last'.args.attr)>> \o SubSeq(args, 1, Len(args) - 1)
                        \o <<<<":">> \o args[Len(args)]>>
          IN  Added(last'.c) = <<JoinStr(<<" ">>, tokens)>>]_vars

(***************************************************************************)
(* C10.  As claimed: from_hostmask never fails; for a hostmask with "!"    *)
(* and "@" the nick is the text before the first "!", the user the text    *)
(* between that "!" and the first "@" after it, the host the rest; any     *)
(* other hostmask gives no nick, no user and the hostmask as host.         *)
(***************************************************************************)
C10_FromHostmaskTotal ==
    arg # <<>> =>
        LET s == arg[1]
            r == ret[1]
        IN  /\ r.raised = "no"
            /\ IF Contains(s, "!") /\ Contains(s, "@")
               THEN \E q \in 1..Len(s) :
                        LET p == Index(s, "!")
                        IN  /\ q > p
                            /\ s[q] = "@"
                            /\ \A j \in (p + 1)..(q - 1) : s[j] # "@"
                            /\ r.nick = <<SubSeq(s, 1, p - 1)>>
                            /\ r.user = <<SubSeq(s, p + 1, q - 1)>>
                            /\ r.host = SubSeq(s, q + 1, Len(s))
               ELSE r.nick = <<>> /\ r.user = <<>> /\ r.host = s

(***************************************************************************)
(* C11.  As claimed: the protocol a wrapper refers to carries, whatever    *)
(* the number of losses answered by a reconnect, the host, port and ssl    *)
(* given to connect, and a reconnect opens its transport with them.        *)
(***************************************************************************)
C11_ParamsRetained ==
    /\ \A w \in Wrappers : \E p \in Params : conn[wrap[w]].server_info = <<p>>
    /\ pending.kind = "reconnect" => \E p \in Params : pending.info = <<p>>

(***************************************************************************)
(* C13.  As claimed: the text of the j-th raw event of a protocol is the   *)
(* j-th terminator-delimited line of the text it received with the         *)
(* whitespace at its end removed, and with its leading characters,         *)
(* whitespace included, as received.                                       *)
(***************************************************************************)
C13_LeadingWhitespaceKept ==
    \A c \in Protocols :
        \A j \in 1..Len(hist[c].raw) :
            /\ j <= Terminators(hist[c].stream)
            /\ hist[c].raw[j].text = RStrip(LineOf(hist[c].stream, j))

C15_ConnectedOnceOnEntry ==
    \A c \in Protocols :
        /\ Len(hist[c].connected) = 1
        /\ LET e == hist[c].connected[1]
           IN  /\ e.sender = Protocol(c)
               /\ e.buf = <<>>
               /\ e.queue = <<>>
               /\ e.caps = {}
               /\ e.nickname = <<>>
               /\ e.raws = 0
               /\ e.timers = <<>>

\* a protocol that reconnect created, and whose handler of connected called
\* writeln, received a line and had a drain firing
C15_Witness ==
    \E c \in Protocols :
        /\ c > 1
        /\ last = Did("writeln", 1, 1, TRUE, <<<<"x">>>>)
        /\ hist[c].raw # <<>>
        /\ conn[c].timers # <<>>
        /\ hist[1].replacedBy = c

(***************************************************************************)
(* C16.  As claimed: every line enqueued on a protocol that stays open is  *)
(* written once the drain timer has fired often enough.  For that, at      *)
(* every moment, each line enqueued on an open protocol is written or      *)
(* still waits in its queue, and a firing is pending while lines wait: a   *)
(* line that left the queue unwritten, or a queue with no firing pending,  *)
(* stays so under any scheduling of the timer.                             *)
(***************************************************************************)
C16_EnqueuedLinesGetWritten ==
    \A c \in Protocols :
        ~conn[c].lost =>
            /\ Len(hist[c].enq) = Len(hist[c].wire) + Len(conn[c].queue)
            /\ conn[c].queue = SubSeq(hist[c].enq, Len(hist[c].wire) + 1, Len(hist[c].enq))
            /\ conn[c].queue # <<>> => conn[c].timers # <<>>

(***************************************************************************)
(* C17.  As claimed: once connection_lost was called for a protocol, no    *)
(* step writes a line to its transport, also when lines were queued at     *)
(* the loss.                                                               *)
(***************************************************************************)
C17_NoWriteAfterLoss ==
    [][\A c \in Protocols :
          conn[c].lost => /\ hist'[c].wire = hist[c].wire
                          /\ hist'[c].sent = hist[c].sent]_vars

\* the calls of reconnect that answer the loss of protocol a: the ones that
\* ended and the one in progress
Attempts(a) ==
    Len(hist[a].reconnect) + (IF pending.kind = "reconnect" /\ pending.old = a THEN 1 ELSE 0)

(***************************************************************************)
(* C18.  Failed reconnection.  The calls of reconnect that answer the loss *)
(* of protocol a are the ones that ended and the one in progress.  Each    *)
(* loss is answered by exactly one call; when it raises, no wrapper is     *)
(* given a new target in that step and a is never replaced, and the        *)
(* wrapper that was the sender of the loss refers to a from then on.       *)
(***************************************************************************)
C18_FailedReconnectLeavesWrapper ==
    [][/\ \A a \in DOMAIN conn' :
             /\ (Attempts(a) = Len(hist[a].lostTo))'
             /\ (Attempts(a) <= 1)'
       /\ \A a \in Protocols :
          /\ (pending.kind = "reconnect" /\ pending.old = a /\ pending.c = 0 /\ pending' = NoCall) =>
                /\ wrap' = wrap
                /\ hist'[a].reconnect = <<"raised">>
                /\ hist'[a].replacedBy = 0
          /\ hist[a].reconnect = <<"raised">> =>
                /\ hist'[a].reconnect = <<"raised">>
                /\ hist'[a].replacedBy = 0
                /\ hist'[a].lostTo = hist[a].lostTo
                /\ LET s == hist[a].lostTo[1].sender
                   IN  s.kind = "wrapper" => wrap[s.id] = a /\ wrap'[s.id] = a]_vars

\* create_connection failed in the reconnect for the loss of a protocol with
\* a queued line, and an operation was then called through the wrapper
C18_Witness ==
    \E a \in Protocols :
        /\ hist[a].reconnect = <<"raised">>
        /\ hist[a].lostTo[1].sender.kind = "wrapper"
        /\ wrap[hist[a].lostTo[1].sender.id] = a
        /\ last.via = hist[a].lostTo[1].sender.id
        /\ last.c = a
        /\ conn[a].queue # <<>>
        /\ pending = NoCall

(***************************************************************************)
(* C19.  Unsent lines are not carried across a reconnect.  A new protocol  *)
(* starts with an empty queue and nothing written; the step that repoints  *)
(* a wrapper from a to b moves no line: the queue of a keeps its lines and *)
(* b has no line that was not enqueued on b.  A line enters the queue of b *)
(* only by an operation called on b, and the lines written to the          *)
(* transport of b are, in order, the first lines enqueued on b: a line     *)
(* queued on a never reaches the transport of b.                           *)
(***************************************************************************)
C19_QueueStaysWithItsProtocol ==
    [][\A b \in DOMAIN conn' :
          /\ Len(hist'[b].wire) <= Len(hist'[b].enq)
          /\ \A i \in 1..Len(hist'[b].wire) :
                hist'[b].wire[i] = Encode(hist'[b].enq[i]) \o CRLF
          /\ \A i \in 1..Len(conn'[b].queue) :
                \E j \in 1..Len(hist'[b].enq) : conn'[b].queue[i] = hist'[b].enq[j]
          /\ IF b \notin Protocols
             THEN /\ conn'[b].queue = SubSeq(hist'[b].enq, 1, Len(hist'[b].enq))
                  /\ hist'[b].wire = <<>>
             ELSE /\ Added(b) # <<>> =>
                        /\ IsCall
                        /\ last'.c = b
                        /\ hist'[b].enq = hist[b].enq \o Added(b)
                  /\ \A a \in Protocols :
                        (hist[a].replacedBy # b /\ hist'[a].replacedBy = b) =>
                            /\ wrap[pending.w] = a
                            /\ wrap'[pending.w] = b
                            /\ conn'[a].queue = conn[a].queue
                            /\ conn'[b].queue = conn[b].queue
                            /\ hist'[b].enq = hist[b].enq]_vars

\* the wrapper was repointed while a line waited on the lost protocol, and
\* nothing was written to the transport of the new one
C19_Witness ==
    \E a \in Protocols :
        /\ hist[a].replacedBy # 0
        /\ conn[a].lost
        /\ conn[a].queue # <<>>
        /\ hist[a].lostTo[1].sender.kind = "wrapper"
        /\ wrap[hist[a].lostTo[1].sender.id] = hist[a].replacedBy
        /\ conn[hist[a].replacedBy].queue = <<>>
        /\ hist[hist[a].replacedBy].wire = <<>>
        /\ conn[hist[a].replacedBy].timers # <<>>

\* connection_made returned for protocol b
FullyOpen(b) ==
    /\ b \in Protocols
    /\ Len(hist[b].connected) = 1
    /\ conn[b].timers # <<>>

(***************************************************************************)
(* C20.  A wrapper refers to a new protocol only once the protocol is      *)
(* fully open.  In the step that runs connection_made for b, connected is  *)
(* sent and process_queue runs while no wrapper refers to b, no wrapper    *)
(* changes its target, and an operation a handler of connected calls       *)
(* through a wrapper reaches the protocol the wrapper referred to before,  *)
(* in a reconnect the lost one.  The target of a wrapper changes only in   *)
(* the step that ends a successful reconnect for it, to the protocol that  *)
(* reconnect opened; a wrapper that connect creates refers to the protocol *)
(* connect opened.                                                         *)
(***************************************************************************)
C20_RepointOnlyWhenOpen ==
    [][/\ \A b \in (DOMAIN conn') \ Protocols :
             /\ wrap' = wrap
             /\ Len(hist'[b].connected) = 1
             /\ hist'[b].connected[1].referredBy = {}
             /\ hist'[b].connected[1].timers = <<>>
             /\ conn'[b].timers # <<>>
             /\ \A w \in Wrappers : wrap'[w] # b
             /\ IsCall =>
                   /\ last'.via \in Wrappers
                   /\ last'.c = wrap[last'.via]
                   /\ last'.c # b
                   /\ Added(last'.c) = last'.args
                   /\ hist'[b].enq = <<>>
                   /\ (pending.kind = "reconnect" /\ last'.via = pending.w) =>
                         /\ last'.c = pending.old
                         /\ conn[pending.old].lost
       /\ \A w \in Wrappers :
             wrap'[w] # wrap[w] =>
                /\ pending.kind = "reconnect"
                /\ pending.w = w
                /\ wrap[w] = pending.old
                /\ wrap'[w] = pending.c
                /\ FullyOpen(pending.c)
                /\ pending' = NoCall
                /\ hist'[pending.old].reconnect = <<"returned">>
                /\ conn' = conn
       /\ \A w \in (DOMAIN wrap') \ Wrappers :
             /\ pending.kind = "connect"
             /\ wrap'[w] = pending.c
             /\ FullyOpen(pending.c)
             /\ pending' = NoCall]_vars

\* a handler of connected of the protocol a reconnect opened called writeln
\* through the wrapper, the line went to the lost protocol, and the wrapper
\* was repointed afterwards
C20_Witness ==
    \E a \in Protocols :
        /\ hist[a].replacedBy # 0
        /\ last = Did("writeln", hist[a].lostTo[1].sender.id, a, TRUE, <<<<"x">>>>)
        /\ conn[a].queue = <<<<"x">>>>
        /\ wrap[last.via] = hist[a].replacedBy
        /\ hist[hist[a].replacedBy].enq = <<>>

====
